---- MODULE Spec2Model ----
(***************************************************************************)
(* Webhook relay of src/app.py: the Flask route /webhook, the handler      *)
(* webhook() and the outbound helper send_fonnte_reply().                  *)
(*                                                                         *)
(* One request is handled at a time; the handler's local variables are    *)
(* fresh for every request, the module-level configuration                 *)
(* (FONTE_API_TOKEN, model) is fixed at import time.                       *)
(*                                                                         *)
(* Library behaviour the handler relies on:                                *)
(*  - Flask adds HEAD to a rule that lists GET and answers OPTIONS itself; *)
(*    a method outside the rule is answered 405 by the router, the view    *)
(*    function is not called.                                              *)
(*  - request.is_json looks at the Content-Type only; request.get_json()   *)
(*    raises BadRequest (400) when the declared JSON body does not parse.  *)
(*  - an exception leaving the view function is turned into a response by  *)
(*    Flask: an HTTPException into its own code, anything else into 500.   *)
(*  - requests.post raises a RequestException on transport errors,         *)
(*    raise_for_status raises HTTPError (a RequestException) on a non-2xx  *)
(*    status, Response.json raises requests.exceptions.JSONDecodeError     *)
(*    (a RequestException since requests 2.27) on an unparsable body.      *)
(***************************************************************************)
EXTENDS Integers, Sequences, FiniteSets, TLC

\* ---------------------------------------------------------------- bounds
MaxRequests == 3
MaxSize == 1

\* ------------------------------------------------------- fixed strings
UNAVAILABLE_TEXT == "Maaf, layanan chatbot sedang mengalami gangguan. Silakan coba lagi nanti."
ERROR_TEXT == "Maaf, terjadi kesalahan saat memproses permintaan Anda."

\* ------------------------------------------------------- input domains
Methods == {"GET", "POST", "HEAD", "OPTIONS", "PUT", "DELETE", "PATCH"}

\* what the body of a POST is: not parsable, or the JSON value it parses to
BodyKinds == {"malformed", "null", "list", "string", "number", "object"}

\* a Python value as far as bool(x) can tell: its kind and its number/length
PyNone == [kind |-> "None", n |-> 0]
Unread == [kind |-> "unread", n |-> 0]
MessageValues ==
    {PyNone} \cup {[kind |-> k, n |-> i] : k \in {"str", "num", "list"}, i \in 0..MaxSize}

\* data.get("sender"): None when the key is missing
Senders == {"None", "628123", "628999"}

\* os.getenv(...): None, or the string found in the environment
TokenValues == {"None", "", "token"}
ModelValues == {"None", "GenerativeModel"}

ReplyTexts == {"Tonsilitis adalah...", "Maaf, saya hanya menjawab seputar THT."}
GenerateOutcomes == {"ok", "generate_raises", "text_raises"}
PostOutcomes == {"connection_error", "http_4xx", "http_5xx", "2xx_json", "2xx_not_json"}

Requests ==
    {[method |-> m, is_json |-> j, body |-> b, message |-> PyNone, sender |-> "None"] :
        m \in Methods, j \in BOOLEAN, b \in BodyKinds \ {"object"}}
    \cup
    {[method |-> m, is_json |-> j, body |-> "object", message |-> v, sender |-> s] :
        m \in Methods, j \in BOOLEAN, v \in MessageValues, s \in Senders}

NoRequest == [method |-> "", is_json |-> FALSE, body |-> "", message |-> PyNone, sender |-> "None"]
NoPending == [target |-> "None", message |-> ""]

VARIABLES
    FONTE_API_TOKEN, \* module-level token (line 18)
    model,           \* module-level completion client or None (lines 28-52)
    request,         \* the request being handled
    pc,              \* position of the request in router / handler
    data,            \* local: request.get_json()
    user_message,    \* local: data.get("message")
    sender,          \* local: data.get("sender")
    ai_reply,        \* local: response.text
    pending,         \* arguments of the send_fonnte_reply call being made
    cont,            \* where the handler continues after that call
    calls,           \* outbound calls of this request, in order
    responses,       \* HTTP responses produced for this request
    exc,             \* exception that left webhook(), "none" otherwise
    served,          \* requests received so far
    totalGenuine,    \* requests classified as genuine messages so far
    totalSends       \* calls of send_fonnte_reply so far

vars == <<FONTE_API_TOKEN, model, request, pc, data, user_message, sender, ai_reply,
          pending, cont, calls, responses, exc, served, totalGenuine, totalSends>>

config == <<FONTE_API_TOKEN, model>>
locals == <<data, user_message, sender, ai_reply>>

\* ------------------------------------------------------------- helpers

\* Python truthiness of a value
Truthy_NoneOnly(v) == v.kind # "None"
Truthy(v) == v.kind # "None" /\ v.n # 0

\* `not X` for the module-level handles (None or "" are falsy)
NotModel_Never(m) == FALSE
NotModel(m) == m = "None"
NotToken(t) == t \in {"None", ""}

\* methods=['POST', 'GET'] of the route, and what Flask makes of it
DeclaredMethods == {"POST", "GET"}
RuleMethods ==
    DeclaredMethods \cup (IF "GET" \in DeclaredMethods THEN {"HEAD"} ELSE {}) \cup {"OPTIONS"}

Response(code, status, message, by) ==
    [code |-> code, status |-> status, message |-> message, by |-> by]

\* model.generate_content(arg) followed by response.text: `text` is the reply
\* the provider produced ("" when generate_content itself raised)
GenerateCall(arg, outcome, text) ==
    [op |-> "generate", target |-> "None",
     text |-> IF outcome = "generate_raises" THEN "" ELSE text,
     arg |-> arg, outcome |-> outcome, posts |-> 0,
     result |-> (outcome = "ok"), raised |-> (outcome # "ok")]
\* send_fonnte_reply(target, text) with what requests.post met (`outcome`)
SendCall(target, text, outcome, r) ==
    [op |-> "send", target |-> target, text |-> text,
     arg |-> PyNone, outcome |-> outcome, posts |-> r.posts,
     result |-> r.result, raised |-> r.raised]

\* send_fonnte_reply: number of HTTP POSTs issued, the value returned, and
\* whether an exception leaves the function
send_fonnte_reply_uncaught(token, outcome) ==
    IF NotToken(token) THEN [posts |-> 0, result |-> FALSE, raised |-> FALSE]
    ELSE IF outcome = "2xx_json" THEN [posts |-> 1, result |-> TRUE, raised |-> FALSE]
    ELSE [posts |-> 1, result |-> FALSE, raised |-> TRUE]
send_fonnte_reply_retry(token, outcome) ==
    IF NotToken(token) THEN [posts |-> 0, result |-> FALSE, raised |-> FALSE]
    ELSE IF outcome = "2xx_json" THEN [posts |-> 1, result |-> TRUE, raised |-> FALSE]
    ELSE [posts |-> 2, result |-> FALSE, raised |-> FALSE]
send_fonnte_reply(token, outcome) ==
    IF NotToken(token) THEN [posts |-> 0, result |-> FALSE, raised |-> FALSE]
    ELSE IF outcome = "2xx_json" THEN [posts |-> 1, result |-> TRUE, raised |-> FALSE]
    ELSE [posts |-> 1, result |-> FALSE, raised |-> FALSE]

\* the try/except around generation (lines 116-132): what is sent, to whom,
\* and which return statement follows
AfterGenerate_NoTarget(outcome, text, to) ==
    IF outcome = "ok"
    THEN [ai_reply |-> text, target |-> "None", message |-> text, cont |-> "return_success"]
    ELSE [ai_reply |-> "", target |-> to, message |-> ERROR_TEXT, cont |-> "return_error"]
AfterGenerate_WrongFallback(outcome, text, to) ==
    IF outcome = "ok"
    THEN [ai_reply |-> text, target |-> to, message |-> text, cont |-> "return_success"]
    ELSE [ai_reply |-> "", target |-> to, message |-> UNAVAILABLE_TEXT, cont |-> "return_error"]
AfterGenerate(outcome, text, to) ==
    IF outcome = "ok"
    THEN [ai_reply |-> text, target |-> to, message |-> text, cont |-> "return_success"]
    ELSE [ai_reply |-> "", target |-> to, message |-> ERROR_TEXT, cont |-> "return_error"]

\* the three return statements that follow a send (lines 114, 127, 132)
HandlerResponse(where) ==
    CASE where = "return_unavailable" -> Response(500, "error", "Model not configured", "webhook")
      [] where = "return_success" -> Response(200, "success", "", "webhook")
      [] where = "return_error" -> Response(500, "error", "Internal server error", "webhook")

\* ---------------------------------------------------------------- Init
Init ==
    /\ FONTE_API_TOKEN \in TokenValues
    /\ model \in ModelValues
    /\ request = NoRequest
    /\ pc = "idle"
    /\ data = "unset"
    /\ user_message = Unread
    /\ sender = "None"
    /\ ai_reply = ""
    /\ pending = NoPending
    /\ cont = ""
    /\ calls = <<>>
    /\ responses = <<>>
    /\ exc = "none"
    /\ served = 0
    /\ totalGenuine = 0
    /\ totalSends = 0

\* ------------------------------------------------------------- actions

\* a request reaches the server; the previous one has been answered
Arrive ==
    /\ pc \in {"idle", "done"}
    /\ served < MaxRequests
    /\ \E r \in Requests : request' = r
    /\ pc' = "route"
    /\ data' = "unset"
    /\ user_message' = Unread
    /\ sender' = "None"
    /\ ai_reply' = ""
    /\ pending' = NoPending
    /\ cont' = ""
    /\ calls' = <<>>
    /\ responses' = <<>>
    /\ exc' = "none"
    /\ served' = served + 1
    /\ UNCHANGED <<config, totalGenuine, totalSends>>

\* Flask's dispatch for the rule of line 82
Route ==
    /\ pc = "route"
    /\ IF request.method \notin RuleMethods
       THEN /\ responses' = Append(responses, Response(405, "", "", "flask"))
            /\ pc' = "done"
       ELSE IF request.method = "OPTIONS"
       THEN /\ responses' = Append(responses, Response(200, "", "", "flask"))
            /\ pc' = "done"
       ELSE /\ responses' = responses
            /\ pc' = "webhook"
    /\ UNCHANGED <<config, request, locals, pending, cont, calls, exc,
                   served, totalGenuine, totalSends>>

\* lines 88-91
WebhookGet ==
    /\ pc = "webhook"
    /\ request.method = "GET"
    /\ responses' = Append(responses,
          Response(200, "success", "Webhook is active and ready for POST requests.", "webhook"))
    /\ pc' = "done"
    /\ UNCHANGED <<config, request, locals, pending, cont, calls, exc,
                   served, totalGenuine, totalSends>>

\* lines 94-97
WebhookNotJson ==
    /\ pc = "webhook"
    /\ request.method = "POST"
    /\ ~request.is_json
    /\ responses' = Append(responses, Response(400, "error", "Request must be JSON", "webhook"))
    /\ pc' = "done"
    /\ UNCHANGED <<config, request, locals, pending, cont, calls, exc,
                   served, totalGenuine, totalSends>>

\* line 99
WebhookGetJson_Unchecked ==
    /\ pc = "webhook"
    /\ request.method = "POST"
    /\ IF request.body = "malformed"
       THEN /\ exc' = "BadRequest"
            /\ pc' = "escaped"
            /\ data' = data
       ELSE /\ exc' = exc
            /\ pc' = "classify"
            /\ data' = request.body
    /\ UNCHANGED <<config, request, user_message, sender, ai_reply, pending, cont,
                   calls, responses, served, totalGenuine, totalSends>>
WebhookGetJson ==
    /\ pc = "webhook"
    /\ request.method = "POST"
    /\ request.is_json
    /\ IF request.body = "malformed"
       THEN /\ exc' = "BadRequest"
            /\ pc' = "escaped"
            /\ data' = data
       ELSE /\ exc' = exc
            /\ pc' = "classify"
            /\ data' = request.body
    /\ UNCHANGED <<config, request, user_message, sender, ai_reply, pending, cont,
                   calls, responses, served, totalGenuine, totalSends>>

\* lines 103-109
WebhookClassify ==
    /\ pc = "classify"
    /\ IF data # "object"
       THEN /\ exc' = "AttributeError"
            /\ pc' = "escaped"
            /\ UNCHANGED <<user_message, sender, responses, totalGenuine>>
       ELSE /\ user_message' = request.message
            /\ exc' = exc
            /\ IF ~Truthy(request.message)
               THEN /\ responses' = Append(responses,
                          Response(200, "ok", "Status update received", "webhook"))
                    /\ pc' = "done"
                    /\ UNCHANGED <<sender, totalGenuine>>
               ELSE /\ sender' = request.sender
                    /\ pc' = "model_check"
                    /\ totalGenuine' = totalGenuine + 1
                    /\ responses' = responses
    /\ UNCHANGED <<config, request, data, ai_reply, pending, cont, calls,
                   served, totalSends>>

\* lines 111-113, up to the call of send_fonnte_reply
WebhookNoModel_NoSend ==
    /\ pc = "model_check"
    /\ NotModel(model)
    /\ pc' = "return_unavailable"
    /\ UNCHANGED <<config, request, locals, pending, cont, calls, responses, exc,
                   served, totalGenuine, totalSends>>
WebhookNoModel ==
    /\ pc = "model_check"
    /\ NotModel(model)
    /\ pending' = [target |-> sender, message |-> UNAVAILABLE_TEXT]
    /\ cont' = "return_unavailable"
    /\ pc' = "send"
    /\ UNCHANGED <<config, request, locals, calls, responses, exc,
                   served, totalGenuine, totalSends>>

\* lines 116-125 and 129-131, up to the call of send_fonnte_reply
WebhookGenerate ==
    /\ pc = "model_check"
    /\ ~NotModel(model)
    /\ \E outcome \in GenerateOutcomes, text \in ReplyTexts :
         LET a == AfterGenerate(outcome, text, sender) IN
            /\ calls' = Append(calls, GenerateCall(user_message, outcome, text))
            /\ ai_reply' = a.ai_reply
            /\ pending' = [target |-> a.target, message |-> a.message]
            /\ cont' = a.cont
    /\ pc' = "send"
    /\ UNCHANGED <<config, request, data, user_message, sender, responses, exc,
                   served, totalGenuine, totalSends>>

\* lines 55-79, and the handler's reaction when the call returns or raises
SendFonnteReply ==
    /\ pc = "send"
    /\ \E outcome \in PostOutcomes :
         LET r == send_fonnte_reply(FONTE_API_TOKEN, outcome) IN
            /\ calls' = Append(calls, SendCall(pending.target, pending.message, outcome, r))
            /\ IF ~r.raised
               THEN /\ pc' = cont
                    /\ UNCHANGED <<pending, cont, exc>>
               ELSE IF cont = "return_success"
               THEN /\ pending' = [target |-> sender, message |-> ERROR_TEXT]
                    /\ cont' = "return_error"
                    /\ pc' = "send"
                    /\ exc' = exc
               ELSE /\ exc' = "RequestException"
                    /\ pc' = "escaped"
                    /\ UNCHANGED <<pending, cont>>
    /\ totalSends' = totalSends + 1
    /\ UNCHANGED <<config, request, locals, responses, served, totalGenuine>>

\* lines 114, 127, 132
WebhookReturn ==
    /\ pc \in {"return_unavailable", "return_success", "return_error"}
    /\ responses' = Append(responses, HandlerResponse(pc))
    /\ pc' = "done"
    /\ UNCHANGED <<config, request, locals, pending, cont, calls, exc,
                   served, totalGenuine, totalSends>>

\* lines 134-135
WebhookMethodFallback ==
    /\ pc = "webhook"
    /\ request.method \notin {"GET", "POST"}
    /\ responses' = Append(responses, Response(405, "error", "Method not allowed", "webhook"))
    /\ pc' = "done"
    /\ UNCHANGED <<config, request, locals, pending, cont, calls, exc,
                   served, totalGenuine, totalSends>>

\* Flask answers for an exception that left webhook()
FrameworkError ==
    /\ pc = "escaped"
    /\ responses' = Append(responses,
          IF exc = "BadRequest" THEN Response(400, "", "", "flask")
          ELSE Response(500, "", "", "flask"))
    /\ pc' = "done"
    /\ UNCHANGED <<config, request, locals, pending, cont, calls, exc,
                   served, totalGenuine, totalSends>>

Next ==
    \/ Arrive
    \/ Route
    \/ WebhookGet
    \/ WebhookNotJson
    \/ WebhookGetJson
    \/ WebhookClassify
    \/ WebhookNoModel
    \/ WebhookGenerate
    \/ SendFonnteReply
    \/ WebhookReturn
    \/ WebhookMethodFallback
    \/ FrameworkError

Spec == Init /\ [][Next]_vars

\* ------------------------------------------------------------ properties

Done == pc = "done"
Answered == pc \in {"idle", "done"}
Sends == SelectSeq(calls, LAMBDA c : c.op = "send")
Generates == SelectSeq(calls, LAMBDA c : c.op = "generate")

\* a POST declared as JSON whose body is a JSON object
ObjectPost ==
    /\ request.method = "POST"
    /\ request.is_json
    /\ request.body = "object"

\* the payload's `message` is missing, null or empty (falsy for line 104)
EmptyMessage == request.message.kind = "None" \/ request.message.n = 0
GenuinePost == ObjectPost /\ ~EmptyMessage

SameResponse(r, code, status, message) ==
    /\ r.code = code
    /\ r.status = status
    /\ r.message = message

\* the generation step of this request ended this way
Generated(outcomes) ==
    /\ Len(calls) >= 1
    /\ calls[1].op = "generate"
    /\ calls[1].outcome \in outcomes

\* C1: every POST classified as a genuine message (JSON object with a
\* non-empty message) has, once answered, produced exactly one call of
\* send_fonnte_reply, carrying the generated text or one of the two fallback
\* strings, and exactly one HTTP response; over the whole sequence of
\* requests the number of send calls equals the number of genuine messages.
C1_OneReplyOneResponse ==
    /\ (Done /\ GenuinePost) =>
          /\ Len(Sends) = 1
          /\ Len(responses) = 1
          /\ \/ Sends[1].text \in {UNAVAILABLE_TEXT, ERROR_TEXT}
             \/ Generated({"ok"}) /\ Sends[1].text = calls[1].text
    /\ Answered => totalSends = totalGenuine
    /\ totalSends <= totalGenuine
C1_Witness ==
    /\ Done
    /\ GenuinePost
    /\ totalGenuine >= 2
    /\ Generated({"text_raises"})
    /\ Len(Sends) = 1
    /\ Sends[1].text = ERROR_TEXT

\* C2: a POST whose JSON object has no `message` or an empty one is answered
\* 200 with status "ok" and makes no send call and no completion call,
\* whether or not the completion model is available.
C2_StatusUpdateIgnored ==
    (ObjectPost /\ EmptyMessage) =>
        /\ calls = <<>>
        /\ Done => /\ Len(responses) = 1
                   /\ SameResponse(responses[1], 200, "ok", "Status update received")
C2_Witness ==
    /\ Done
    /\ ObjectPost
    /\ request.message = [kind |-> "str", n |-> 0]
    /\ model = "GenerativeModel"
    /\ Len(responses) = 1
    /\ responses[1].status = "ok"

\* C3: a POST with a non-empty message while model is None never calls the
\* completion API, makes exactly one send call, to the payload's sender with
\* the service-unavailable text, and is answered 500 "Model not configured".
C3_ModelUnavailable ==
    (GenuinePost /\ model = "None") =>
        /\ Generates = <<>>
        /\ Done => /\ Len(Sends) = 1
                   /\ Sends[1].target = request.sender
                   /\ Sends[1].text = UNAVAILABLE_TEXT
                   /\ Len(responses) = 1
                   /\ SameResponse(responses[1], 500, "error", "Model not configured")
C3_Witness ==
    /\ Done
    /\ GenuinePost
    /\ model = "None"
    /\ request.sender = "628123"
    /\ Len(Sends) = 1
    /\ Sends[1].text = UNAVAILABLE_TEXT
    /\ responses[1].code = 500

\* C4: a POST with a non-empty message whose completion succeeds is answered
\* 200 with status "success"; the completion API is called exactly once, with
\* the message, and then exactly one send call is made, to the payload's
\* sender with the generated text.
C4_SuccessPath ==
    (Done /\ GenuinePost /\ model # "None" /\ Generated({"ok"})) =>
        /\ Len(calls) = 2
        /\ calls[1].arg = request.message
        /\ calls[2].op = "send"
        /\ calls[2].target = request.sender
        /\ calls[2].text = calls[1].text
        /\ calls[2].text \in ReplyTexts
        /\ Len(responses) = 1
        /\ SameResponse(responses[1], 200, "success", "")
C4_Witness ==
    /\ Done
    /\ GenuinePost
    /\ Generated({"ok"})
    /\ Len(calls) = 2
    /\ calls[2].target = "628123"
    /\ calls[2].text = "Tonsilitis adalah..."
    /\ calls[2].result
    /\ responses[1].code = 200

\* C5: when the completion step raises (generate_content or the extraction of
\* response.text), the request is answered 500 with status "error" and exactly
\* one send call is made, with the generic-error text; no generated text is
\* sent and the completion call is not repeated.
C5_GenerationRaises ==
    (Done /\ GenuinePost /\ Generated({"generate_raises", "text_raises"})) =>
        /\ Len(Generates) = 1
        /\ Len(Sends) = 1
        /\ Sends[1].text = ERROR_TEXT
        /\ Sends[1].target = request.sender
        /\ \A i \in 1..Len(Sends) : Sends[i].text \notin ReplyTexts
        /\ Len(responses) = 1
        /\ SameResponse(responses[1], 500, "error", "Internal server error")
C5_Witness ==
    /\ Done
    /\ GenuinePost
    /\ Generated({"generate_raises"})
    /\ Len(Sends) = 1
    /\ Sends[1].text = ERROR_TEXT
    /\ responses[1].code = 500

\* C6: no exception leaves webhook(), whatever the request.
C6_NoExceptionEscapes == exc = "none"

C8_SendResultIgnored ==
    (Done /\ GenuinePost) =>
        /\ Len(Sends) = 1
        /\ Len(responses) = 1
        /\ IF model # "None" /\ Generated({"ok"})
           THEN responses[1].code = 200 /\ responses[1].status = "success"
           ELSE responses[1].code = 500 /\ responses[1].status = "error"
C8_Witness ==
    /\ Done
    /\ GenuinePost
    /\ Generated({"ok"})
    /\ FONTE_API_TOKEN = "token"
    /\ Len(Sends) = 1
    /\ ~Sends[1].result
    /\ responses[1].code = 200

C10_MethodHandling ==
    Done =>
        /\ request.method \notin {"GET", "POST"} =>
              /\ Len(responses) = 1
              /\ SameResponse(responses[1], 405, "error", "Method not allowed")
              /\ calls = <<>>
        /\ request.method = "GET" =>
              /\ Len(responses) = 1
              /\ responses[1].code = 200
              /\ Sends = <<>>

====
